---- MODULE Spec2Model ----
(***************************************************************************)
(* scripts/audit-to-sarif.py: conversion of a cargo-audit JSON report into *)
(* a SARIF 2.1.0 document, and the command line program around it.         *)
(*                                                                         *)
(* Python values are modelled as tagged records: None is Null, a str is    *)
(* Str(s) with s the tuple of its characters, a number is Num(n) with n    *)
(* the value in tenths (5.0 is Num(50)), a dict is Map(f) with f a         *)
(* function from its keys, a list is List(q).  A raised exception is the   *)
(* record Exc(kind); an operator that models a Python expression returns   *)
(* either the value of the expression or the exception it raises.          *)
(***************************************************************************)
EXTENDS Integers, Sequences, FiniteSets, TLC

VARIABLES
    argv,        \* sys.argv
    fs,          \* the file system: path -> file
    pc,          \* position of the running code
    audit_data,  \* main: the parsed input; the argument of convert_audit_to_sarif
    vulnerabilities, \* convert_audit_to_sarif: the extracted list
    sarif,       \* convert_audit_to_sarif: the document under assembly
    idx,         \* convert_audit_to_sarif: number of loop iterations finished
    sarif_data,  \* the value convert_audit_to_sarif returned
    raised,      \* the exception in flight
    out_pos,     \* json.dump: number of chunks handed to the output file
    stdout,      \* what print wrote
    exit_code,   \* the exit status of the process, NotExited while it runs
    log,         \* history: the file accesses and completed stages, in order
    fs0,         \* history: the file system when the process started
    given,       \* history: the report as it was handed to the first conversion
    outcomes,    \* driver of repeated conversions: what each conversion produced
    call         \* a single call of one of the pure functions

vars ==
    <<argv, fs, pc, audit_data, vulnerabilities, sarif, idx, sarif_data,
      raised, out_pos, stdout, exit_code, log, fs0, given, outcomes, call>>

-----------------------------------------------------------------------------
(* Bounds of the model *)

\* longest vulnerability list of a report
MaxVulns ==
    2

\* number of conversions of the same report in one process
Invocations ==
    2

-----------------------------------------------------------------------------
(* Python values *)

Null ==
    [null |-> TRUE]

Str(s) ==
    [str |-> s]

Num(n) ==
    [num |-> n]

Map(f) ==
    [map |-> f]

List(q) ==
    [list |-> q]

Exc(kind) ==
    [exc |-> kind]

\* a variable that holds nothing yet
NoValue ==
    [none |-> TRUE]

IsStr(v) ==
    "str" \in DOMAIN v

IsMap(v) ==
    "map" \in DOMAIN v

IsList(v) ==
    "list" \in DOMAIN v

Raised(v) ==
    "exc" \in DOMAIN v

\* the literal {}
EmptyMap ==
    Map(<<>>)

\* the literal []
EmptyList ==
    List(<<>>)

-----------------------------------------------------------------------------
(* String literals of the script, as tuples of characters *)

S_critical ==
    <<"c","r","i","t","i","c","a","l">>
S_high ==
    <<"h","i","g","h">>
S_medium ==
    <<"m","e","d","i","u","m">>
S_low ==
    <<"l","o","w">>
S_informational ==
    <<"i","n","f","o","r","m","a","t","i","o","n","a","l">>
S_error ==
    <<"e","r","r","o","r">>
S_warning ==
    <<"w","a","r","n","i","n","g">>
S_note ==
    <<"n","o","t","e">>
S_UNKNOWN ==
    <<"U","N","K","N","O","W","N">>
S_Unknown_vulnerability ==
    <<"U","n","k","n","o","w","n"," ","v","u","l","n","e","r","a","b","i","l","i","t","y">>
S_Cargo_toml ==
    <<"C","a","r","g","o",".","t","o","m","l">>
S_security ==
    <<"s","e","c","u","r","i","t","y">>
S_dependency ==
    <<"d","e","p","e","n","d","e","n","c","y">>
S_vulnerability ==
    <<"v","u","l","n","e","r","a","b","i","l","i","t","y">>
S_very_high ==
    <<"v","e","r","y","-","h","i","g","h">>
S_Update ==
    <<"U","p","d","a","t","e"," ">>
S_package ==
    <<"p","a","c","k","a","g","e">>
S_to_a_patched_version ==
    <<" ","t","o"," ","a"," ","p","a","t","c","h","e","d"," ","v","e","r","s","i","o","n">>
S_md_heading ==
    <<"#","#"," ">>
S_Vulnerability ==
    <<"V","u","l","n","e","r","a","b","i","l","i","t","y">>
S_md_break ==
    <<"\n","\n">>
S_md_references ==
    <<"\n","\n","#","#","#"," ","R","e","f","e","r","e","n","c","e","s","\n","-"," ">>
S_None ==
    <<"N","o","n","e">>
S_schema_uri ==
    <<"h","t","t","p","s",":","/","/","j","s","o","n",".","s","c","h","e","m","a","s","t","o","r","e",".","o","r","g","/","s","a","r","i","f","-","2",".","1",".","0",".","j","s","o","n">>
S_sarif_version ==
    <<"2",".","1",".","0">>
S_cargo_audit ==
    <<"c","a","r","g","o","-","a","u","d","i","t">>
S_driver_version ==
    <<"0",".","1","8",".","0">>
S_informationUri ==
    <<"h","t","t","p","s",":","/","/","g","i","t","h","u","b",".","c","o","m","/","R","u","s","t","S","e","c","/","r","u","s","t","s","e","c">>
S_utf16CodeUnits ==
    <<"u","t","f","1","6","C","o","d","e","U","n","i","t","s">>
S_RUSTSEC_1 ==
    <<"R","U","S","T","S","E","C","-","2","0","2","3","-","0","0","0","1">>
S_Bad_crate ==
    <<"B","a","d"," ","c","r","a","t","e">>
S_desc ==
    <<"d","e","s","c">>
S_url ==
    <<"h","t","t","p",":","/","/","x">>
S_foo ==
    <<"f","o","o">>
S_1_2_3 ==
    <<"1",".","2",".","3">>
S_moderate ==
    <<"m","o","d","e","r","a","t","e">>
S_MEDIUM_sp ==
    <<"M","E","D","I","U","M"," ">>
S_hi ==
    <<"h","i">>
S_none ==
    <<"n","o","n","e">>

-----------------------------------------------------------------------------
(* Built-in operations of Python the script uses *)

UpperLetters ==
    <<"A","B","C","D","E","F","G","H","I","J","K","L","M",
      "N","O","P","Q","R","S","T","U","V","W","X","Y","Z">>

LowerLetters ==
    <<"a","b","c","d","e","f","g","h","i","j","k","l","m",
      "n","o","p","q","r","s","t","u","v","w","x","y","z">>

\* str.lower() of one character
LowerChar(c) ==
    IF \E k \in DOMAIN UpperLetters : UpperLetters[k] = c
    THEN LowerLetters[CHOOSE k \in DOMAIN UpperLetters : UpperLetters[k] = c]
    ELSE c

\* str.lower()
Lower(s) ==
    [k \in 1..Len(s) |-> LowerChar(s[k])]

\* dict.get(key, default) on a dict
DictGet(d, key, default) ==
    IF key \in DOMAIN d THEN d[key] ELSE default

\* the expression obj.get(key, default): every value but a dict has no
\* attribute get
Get(obj, key, default) ==
    IF Raised(obj) THEN obj
    ELSE IF ~IsMap(obj) THEN Exc("AttributeError")
    ELSE DictGet(obj.map, key, default)

\* a replacement field {v} of an f-string, for the values the reports of the
\* model hold in the formatted fields: a str is copied, None reads "None"
Format(v) ==
    CASE IsStr(v) -> v.str
      [] v = Null -> S_None

\* the items a for statement walks, as a list: the elements of a list, the
\* characters of a str; None and numbers are not iterable
Iterate(v) ==
    CASE IsList(v) -> v
      [] IsStr(v) -> List([k \in 1..Len(v.str) |-> Str(<<v.str[k]>>)])
      [] v = Null \/ "num" \in DOMAIN v -> Exc("TypeError")

\* the first exception among the values of expressions evaluated in order
FirstRaised(evaluated) ==
    evaluated[CHOOSE k \in DOMAIN evaluated :
                /\ Raised(evaluated[k])
                /\ \A j \in 1..(k - 1) : ~Raised(evaluated[j])]

AnyRaised(evaluated) ==
    \E k \in DOMAIN evaluated : Raised(evaluated[k])

-----------------------------------------------------------------------------
(* convert_severity *)

severity_map ==
    (S_critical :> S_error) @@ (S_high :> S_error) @@ (S_medium :> S_warning)
    @@ (S_low :> S_note) @@ (S_informational :> S_note)

\* the same call without lower()
convert_severity_case_sensitive(severity) ==
    IF Raised(severity) THEN severity
    ELSE IF ~IsStr(severity) THEN Exc("AttributeError")
    ELSE Str(DictGet(severity_map, severity.str, S_warning))

convert_severity(severity) ==
    IF Raised(severity) THEN severity
    ELSE IF ~IsStr(severity) THEN Exc("AttributeError")
    ELSE Str(DictGet(severity_map, Lower(severity.str), S_warning))

-----------------------------------------------------------------------------
(* create_sarif_result and create_sarif_rule *)

\* the default of cvss.score, 5.0, in tenths
DefaultScore ==
    50

\* a default score of 0.0 instead
cvss_score_zero_default(vuln) ==
    Get(Get(vuln, "cvss", EmptyMap), "score", Num(0))

\* vuln.get("cvss", {}).get("score", 5.0)
cvss_score(vuln) ==
    Get(Get(vuln, "cvss", EmptyMap), "score", Num(DefaultScore))

create_sarif_result(vuln) ==
    LET advisory == Get(vuln, "advisory", EmptyMap)
        package == Get(vuln, "package", EmptyMap)
        ruleId == Get(advisory, "id", Str(S_UNKNOWN))
        level == convert_severity(Get(vuln, "severity", Str(S_medium)))
        text == Get(advisory, "description", Str(S_Unknown_vulnerability))
        packageName == Get(package, "name", Str(<<>>))
        packageVersion == Get(package, "version", Str(<<>>))
        score == cvss_score(vuln)
        evaluated == <<advisory, package, ruleId, level, text, packageName,
                       packageVersion, score>>
    IN  IF AnyRaised(evaluated) THEN FirstRaised(evaluated)
        ELSE [ruleId |-> ruleId,
              level |-> level,
              message |-> [text |-> text],
              locations |-> <<[physicalLocation |->
                  [artifactLocation |-> [uri |-> Str(S_Cargo_toml)],
                   region |-> [startLine |-> 1, startColumn |-> 1]]]>>,
              partialFingerprints |-> [packageName |-> packageName,
                                       packageVersion |-> packageVersion],
              properties |-> ("security-severity" :> score)
                  @@ [tags |-> <<Str(S_security), Str(S_dependency),
                                 Str(S_vulnerability)>>,
                      precision |-> Str(S_very_high)]]

create_sarif_rule(vuln) ==
    LET advisory == Get(vuln, "advisory", EmptyMap)
        id == Get(advisory, "id", Str(S_UNKNOWN))
        name == Get(advisory, "title", Str(S_Unknown_vulnerability))
        fullDescription == Get(advisory, "description", Str(<<>>))
        packageName == Get(Get(vuln, "package", EmptyMap), "name", Str(S_package))
        heading == Get(advisory, "title", Str(S_Vulnerability))
        url == Get(advisory, "url", Str(<<>>))
        score == cvss_score(vuln)
        evaluated == <<advisory, id, name, fullDescription, packageName,
                       heading, url, score>>
    IN  IF AnyRaised(evaluated) THEN FirstRaised(evaluated)
        ELSE [id |-> id,
              name |-> name,
              shortDescription |-> [text |-> name],
              fullDescription |-> [text |-> fullDescription],
              help |-> [text |-> Str(S_Update \o Format(packageName)
                                     \o S_to_a_patched_version),
                        markdown |-> Str(S_md_heading \o Format(heading)
                                     \o S_md_break \o Format(fullDescription)
                                     \o S_md_references \o Format(url))],
              properties |-> ("security-severity" :> score)
                  @@ [tags |-> <<Str(S_security), Str(S_vulnerability)>>]]

-----------------------------------------------------------------------------
(* convert_audit_to_sarif *)

\* one list object kept for every call: the rules of the earlier document
SharedRulesList ==
    IF sarif = NoValue THEN <<>> ELSE sarif.runs[1].tool.driver.rules

\* line 89: the list display [] makes a new empty list at each call
NewRulesList ==
    <<>>

\* the document literal of lines 80-95, its two lists empty
SarifSkeleton ==
    ("$schema" :> Str(S_schema_uri))
    @@ [version |-> Str(S_sarif_version),
        runs |-> <<[tool |-> [driver |->
                        [name |-> Str(S_cargo_audit),
                         version |-> Str(S_driver_version),
                         informationUri |-> Str(S_informationUri),
                         rules |-> NewRulesList]],
                    results |-> <<>>,
                    columnKind |-> Str(S_utf16CodeUnits)]>>]

Rules(doc) ==
    doc.runs[1].tool.driver.rules

Results(doc) ==
    doc.runs[1].results

\* an exception leaves the function: the caller's handler is next
Raise(e) ==
    /\ raised' = e
    /\ pc' = "raised"

\* lines 78-95: the list is extracted and the document initialised
ConvertEnter ==
    /\ pc = "convert"
    /\ LET v == Get(Get(audit_data, "vulnerabilities", EmptyMap), "list", EmptyList)
       IN  IF Raised(v)
           THEN /\ Raise(v)
                /\ UNCHANGED <<vulnerabilities, sarif, idx>>
           ELSE /\ vulnerabilities' = v
                /\ sarif' = SarifSkeleton
                /\ idx' = 0
                /\ pc' = "loop"
                /\ UNCHANGED raised
    /\ UNCHANGED <<argv, fs, audit_data, sarif_data, out_pos, stdout, exit_code,
                   log, fs0, given, outcomes, call>>

\* line 98 on a value that is not iterable
ForRaises ==
    /\ pc = "loop"
    /\ Raised(Iterate(vulnerabilities))
    /\ Raise(Iterate(vulnerabilities))
    /\ UNCHANGED <<argv, fs, audit_data, vulnerabilities, sarif, idx, sarif_data,
                   out_pos, stdout, exit_code, log, fs0, given, outcomes, call>>

\* line 99: the rule of the next vulnerability is appended
LoopRule ==
    /\ pc = "loop"
    /\ ~Raised(Iterate(vulnerabilities))
    /\ idx < Len(Iterate(vulnerabilities).list)
    /\ LET rule == create_sarif_rule(Iterate(vulnerabilities).list[idx + 1])
       IN  IF Raised(rule)
           THEN /\ Raise(rule)
                /\ UNCHANGED sarif
           ELSE /\ sarif' = [sarif EXCEPT !.runs[1].tool.driver.rules = Append(@, rule)]
                /\ pc' = "loop_result"
                /\ UNCHANGED raised
    /\ UNCHANGED <<argv, fs, audit_data, vulnerabilities, idx, sarif_data, out_pos,
                   stdout, exit_code, log, fs0, given, outcomes, call>>

\* line 100: the result of the same vulnerability is appended
LoopResult ==
    /\ pc = "loop_result"
    /\ LET result == create_sarif_result(Iterate(vulnerabilities).list[idx + 1])
       IN  IF Raised(result)
           THEN /\ Raise(result)
                /\ UNCHANGED <<sarif, idx>>
           ELSE /\ sarif' = [sarif EXCEPT !.runs[1].results = Append(@, result)]
                /\ idx' = idx + 1
                /\ pc' = "loop"
                /\ UNCHANGED raised
    /\ UNCHANGED <<argv, fs, audit_data, vulnerabilities, sarif_data, out_pos,
                   stdout, exit_code, log, fs0, given, outcomes, call>>

\* line 102, and the caller's assignment of the returned document
ConvertReturn ==
    /\ pc = "loop"
    /\ ~Raised(Iterate(vulnerabilities))
    /\ idx = Len(Iterate(vulnerabilities).list)
    /\ sarif_data' = sarif
    /\ pc' = "returned"
    /\ log' = Append(log, [ev |-> "converted"])
    /\ UNCHANGED <<argv, fs, audit_data, vulnerabilities, sarif, idx, raised,
                   out_pos, stdout, exit_code, fs0, given, outcomes, call>>

-----------------------------------------------------------------------------
(* main *)

ProgramName ==
    "audit-to-sarif.py"

InputPath ==
    "audit.json"

OutputPath ==
    "out.sarif"

Paths ==
    {InputPath, OutputPath}

\* the process has not exited
NotExited ==
    -1

\* the test of line 105 accepting surplus arguments
ArgsOkAtLeast ==
    Len(argv) >= 3

\* line 105: the test of the argument count passes
ArgsOk ==
    ~(Len(argv) # 3)

\* json.load: the text of a file parsed, or the error of a text that is not JSON
JsonLoad(data) ==
    IF "json" \in DOMAIN data THEN data.json ELSE Exc("JSONDecodeError")

\* json.dump(sarif_data, f, indent=2) hands the text to the file in pieces, in
\* the order of the document: the metadata ahead of the rules, each rule, each
\* result, the rest of the run
Chunks(doc) ==
    <<[part |-> "head", schema |-> doc["$schema"], version |-> doc.version,
       name |-> doc.runs[1].tool.driver.name,
       driver_version |-> doc.runs[1].tool.driver.version,
       informationUri |-> doc.runs[1].tool.driver.informationUri]>>
    \o [k \in 1..Len(Rules(doc)) |-> [part |-> "rule", value |-> Rules(doc)[k]]]
    \o [k \in 1..Len(Results(doc)) |-> [part |-> "result", value |-> Results(doc)[k]]]
    \o <<[part |-> "tail", columnKind |-> doc.runs[1].columnKind]>>

\* lines 105-110
Start ==
    /\ pc = "main"
    /\ IF ArgsOk
       THEN /\ pc' = "open_input"
            /\ UNCHANGED <<stdout, exit_code>>
       ELSE /\ stdout' = Append(stdout, [msg |-> "usage"])
            /\ exit_code' = 1
            /\ pc' = "exit"
    /\ UNCHANGED <<argv, fs, audit_data, vulnerabilities, sarif, idx, sarif_data,
                   raised, out_pos, log, fs0, given, outcomes, call>>

\* the output file opened, and so truncated, ahead of the load
OpenInputAndOutput ==
    /\ pc = "open_input"
    /\ LET f == fs[argv[2]]
           ok == f.exists /\ f.readable
       IN  /\ log' = log \o <<[ev |-> "open", path |-> argv[3], mode |-> "w",
                                ok |-> fs[argv[3]].writable],
                              [ev |-> "open", path |-> argv[2], mode |-> "r", ok |-> ok]>>
           /\ IF ok
              THEN /\ pc' = "load"
                   /\ UNCHANGED raised
              ELSE Raise(IF f.exists THEN Exc("PermissionError")
                                     ELSE Exc("FileNotFoundError"))
    /\ UNCHANGED <<argv, fs, audit_data, vulnerabilities, sarif, idx, sarif_data,
                   out_pos, stdout, exit_code, fs0, given, outcomes, call>>

\* line 113: open(input_file, 'r')
OpenInput ==
    /\ pc = "open_input"
    /\ LET f == fs[argv[2]]
           ok == f.exists /\ f.readable
       IN  /\ log' = Append(log, [ev |-> "open", path |-> argv[2], mode |-> "r", ok |-> ok])
           /\ IF ok
              THEN /\ pc' = "load"
                   /\ UNCHANGED raised
              ELSE Raise(IF f.exists THEN Exc("PermissionError")
                                     ELSE Exc("FileNotFoundError"))
    /\ UNCHANGED <<argv, fs, audit_data, vulnerabilities, sarif, idx, sarif_data,
                   out_pos, stdout, exit_code, fs0, given, outcomes, call>>

\* line 114: json.load(f), and the end of the with block
Load ==
    /\ pc = "load"
    /\ LET parsed == JsonLoad(fs[argv[2]].data)
       IN  IF Raised(parsed)
           THEN /\ Raise(parsed)
                /\ UNCHANGED <<audit_data, given, log>>
           ELSE /\ audit_data' = parsed
                /\ given' = parsed
                /\ log' = Append(log, [ev |-> "parsed"])
                /\ pc' = "convert"
                /\ UNCHANGED raised
    /\ UNCHANGED <<argv, fs, vulnerabilities, sarif, idx, sarif_data, out_pos,
                   stdout, exit_code, fs0, outcomes, call>>

\* line 118: open(output_file, 'w') creates the file or truncates it
OpenOutput ==
    /\ pc = "returned"
    /\ LET f == fs[argv[3]]
       IN  /\ log' = Append(log, [ev |-> "open", path |-> argv[3], mode |-> "w",
                                  ok |-> f.writable])
           /\ IF f.writable
              THEN /\ fs' = [fs EXCEPT ![argv[3]] =
                                [f EXCEPT !.exists = TRUE, !.data = [chunks |-> <<>>]]]
                   /\ out_pos' = 0
                   /\ pc' = "dump"
                   /\ UNCHANGED raised
              ELSE /\ Raise(Exc("PermissionError"))
                   /\ UNCHANGED <<fs, out_pos>>
    /\ UNCHANGED <<argv, audit_data, vulnerabilities, sarif, idx, sarif_data,
                   stdout, exit_code, fs0, given, outcomes, call>>

\* line 119: one piece of the text reaches the file
DumpWrite ==
    /\ pc = "dump"
    /\ out_pos < Len(Chunks(sarif_data))
    /\ fs' = [fs EXCEPT ![argv[3]].data.chunks =
                 Append(@, Chunks(sarif_data)[out_pos + 1])]
    /\ out_pos' = out_pos + 1
    /\ UNCHANGED <<argv, pc, audit_data, vulnerabilities, sarif, idx, sarif_data,
                   raised, stdout, exit_code, log, fs0, given, outcomes, call>>

\* line 119: a write, or the flush when the with block closes the file, fails
\* (the device is full, an I/O error); the with block closes the file
DumpFails ==
    /\ pc = "dump"
    /\ Raise(Exc("OSError"))
    /\ UNCHANGED <<argv, fs, audit_data, vulnerabilities, sarif, idx, sarif_data,
                   out_pos, stdout, exit_code, log, fs0, given, outcomes, call>>

\* the end of the with block of lines 118-119: the file is closed
CloseOutput ==
    /\ pc = "dump"
    /\ out_pos = Len(Chunks(sarif_data))
    /\ log' = Append(log, [ev |-> "written"])
    /\ pc' = "print_success"
    /\ UNCHANGED <<argv, fs, audit_data, vulnerabilities, sarif, idx, sarif_data,
                   raised, out_pos, stdout, exit_code, fs0, given, outcomes, call>>

\* line 121, after which main returns and the interpreter exits with status 0
PrintSuccess ==
    /\ pc = "print_success"
    /\ stdout' = Append(stdout, [msg |-> "success", input |-> argv[2],
                                 output |-> argv[3]])
    /\ exit_code' = 0
    /\ pc' = "exit"
    /\ UNCHANGED <<argv, fs, audit_data, vulnerabilities, sarif, idx, sarif_data,
                   raised, out_pos, log, fs0, given, outcomes, call>>

\* a handler that prints the error and lets main return
ExceptNoExit ==
    /\ pc = "raised"
    /\ stdout' = Append(stdout, [msg |-> "error", exc |-> raised.exc])
    /\ exit_code' = 0
    /\ pc' = "exit"
    /\ UNCHANGED <<argv, fs, audit_data, vulnerabilities, sarif, idx, sarif_data,
                   raised, out_pos, log, fs0, given, outcomes, call>>

\* lines 123-125: except Exception
Except ==
    /\ pc = "raised"
    /\ stdout' = Append(stdout, [msg |-> "error", exc |-> raised.exc])
    /\ exit_code' = 1
    /\ pc' = "exit"
    /\ UNCHANGED <<argv, fs, audit_data, vulnerabilities, sarif, idx, sarif_data,
                   raised, out_pos, log, fs0, given, outcomes, call>>

-----------------------------------------------------------------------------
(* The reports, files and command lines of the model *)

\* the sequences over S of length at most n
SeqsUpTo(S, n) ==
    UNION {[1..k -> S] : k \in 0..n}

\* the vulnerability of the worked scenario
VulnFull ==
    Map([advisory |-> Map([id |-> Str(S_RUSTSEC_1), title |-> Str(S_Bad_crate),
                           description |-> Str(S_desc), url |-> Str(S_url)]),
         package |-> Map([name |-> Str(S_foo), version |-> Str(S_1_2_3)]),
         severity |-> Str(S_high),
         cvss |-> Map([score |-> Num(81)])])

VulnLow ==
    Map([advisory |-> Map([id |-> Str(S_hi)]), severity |-> Str(S_low)])

\* vulnerability entries of the reports main converts: mappings, among them
\* one with a null advisory and one with a null severity, and an entry that is
\* not a mapping
MainEntries ==
    {VulnFull, VulnLow, EmptyMap, Map([advisory |-> Null]),
     Map([severity |-> Null]), Null}

AuditReports ==
    {EmptyList, EmptyMap,
     Map([vulnerabilities |-> Null]),
     Map([vulnerabilities |-> EmptyList]),
     Map([vulnerabilities |-> EmptyMap]),
     Map([vulnerabilities |-> Map([list |-> Null])]),
     Map([vulnerabilities |-> Map([list |-> Str(<<>>)])])}
    \cup {Map([vulnerabilities |-> Map([list |-> List(q)])]) :
            q \in SeqsUpTo(MainEntries, MaxVulns)}

NoFile ==
    [exists |-> FALSE, readable |-> FALSE, writable |-> FALSE, data |-> NoValue]

\* the input path: nothing there, a file that may not be read, a text that is
\* not JSON, the text of a report
InputFiles ==
    {NoFile,
     [exists |-> TRUE, readable |-> FALSE, writable |-> FALSE,
      data |-> [json |-> EmptyMap]],
     [exists |-> TRUE, readable |-> TRUE, writable |-> FALSE,
      data |-> [text |-> "not json"]]}
    \cup {[exists |-> TRUE, readable |-> TRUE, writable |-> FALSE,
           data |-> [json |-> d]] : d \in AuditReports}

\* the output path: nothing there and the file can or cannot be created, an
\* earlier output that can or cannot be overwritten
OutputFiles ==
    {NoFile, [NoFile EXCEPT !.writable = TRUE]}
    \cup {[exists |-> TRUE, readable |-> TRUE, writable |-> w,
           data |-> [text |-> "earlier output"]] : w \in BOOLEAN}

\* sys.argv: the program name and zero to three arguments
CommandLines ==
    {<<ProgramName>>, <<ProgramName, InputPath>>,
     <<ProgramName, InputPath, OutputPath>>,
     <<ProgramName, InputPath, OutputPath, "extra">>}

-----------------------------------------------------------------------------
(* One run of the program *)

Init ==
    /\ argv \in CommandLines
    /\ fs \in {f \in [Paths -> InputFiles \cup OutputFiles] :
                 f[InputPath] \in InputFiles /\ f[OutputPath] \in OutputFiles}
    /\ fs0 = fs
    /\ pc = "main"
    /\ audit_data = NoValue
    /\ vulnerabilities = NoValue
    /\ sarif = NoValue
    /\ idx = 0
    /\ sarif_data = NoValue
    /\ raised = NoValue
    /\ out_pos = 0
    /\ stdout = <<>>
    /\ exit_code = NotExited
    /\ log = <<>>
    /\ given = NoValue
    /\ outcomes = <<>>
    /\ call = NoValue

Next ==
    \/ Start
    \/ OpenInput
    \/ Load
    \/ ConvertEnter
    \/ ForRaises
    \/ LoopRule
    \/ LoopResult
    \/ ConvertReturn
    \/ OpenOutput
    \/ DumpWrite
    \/ DumpFails
    \/ CloseOutput
    \/ PrintSuccess
    \/ Except

Spec ==
    Init /\ [][Next]_vars

-----------------------------------------------------------------------------
(* The same report converted several times by one process *)

\* the caller invokes convert_audit_to_sarif on the report once more
Call ==
    /\ pc = "idle"
    /\ Len(outcomes) < Invocations
    /\ pc' = "convert"
    /\ UNCHANGED <<argv, fs, audit_data, vulnerabilities, sarif, idx, sarif_data,
                   raised, out_pos, stdout, exit_code, log, fs0, given, outcomes,
                   call>>

\* the caller receives what the call produced: the returned document or the
\* exception
Collect ==
    /\ pc \in {"returned", "raised"}
    /\ outcomes' = Append(outcomes, IF pc = "returned" THEN sarif_data ELSE raised)
    /\ pc' = "idle"
    /\ UNCHANGED <<argv, fs, audit_data, vulnerabilities, sarif, idx, sarif_data,
                   raised, out_pos, stdout, exit_code, log, fs0, given, call>>

InitRepeat ==
    /\ audit_data \in AuditReports
    /\ given = audit_data
    /\ pc = "idle"
    /\ outcomes = <<>>
    /\ argv = <<ProgramName>>
    /\ fs = [p \in Paths |-> NoFile]
    /\ fs0 = fs
    /\ vulnerabilities = NoValue
    /\ sarif = NoValue
    /\ idx = 0
    /\ sarif_data = NoValue
    /\ raised = NoValue
    /\ out_pos = 0
    /\ stdout = <<>>
    /\ exit_code = NotExited
    /\ log = <<>>
    /\ call = NoValue

NextRepeat ==
    \/ Call
    \/ ConvertEnter
    \/ ForRaises
    \/ LoopRule
    \/ LoopResult
    \/ ConvertReturn
    \/ Collect

SpecRepeat ==
    InitRepeat /\ [][NextRepeat]_vars

-----------------------------------------------------------------------------
(* Single calls of convert_severity, create_sarif_result, create_sarif_rule *)

\* str.upper() of one character
UpperChar(c) ==
    IF \E k \in DOMAIN LowerLetters : LowerLetters[k] = c
    THEN UpperLetters[CHOOSE k \in DOMAIN LowerLetters : LowerLetters[k] = c]
    ELSE c

\* the word w in every letter case
CaseVariants(w) ==
    {[k \in 1..Len(w) |-> IF k \in U THEN UpperChar(w[k]) ELSE w[k]] :
        U \in SUBSET (1..Len(w))}

SeverityLabels ==
    {S_critical, S_high, S_medium, S_low, S_informational}

\* the severity strings of the model: the five labels in every letter case,
\* and strings that are none of them
SeverityStrings ==
    UNION {CaseVariants(w) : w \in SeverityLabels}
    \cup {<<>>, S_moderate, S_MEDIUM_sp, S_none, S_hi, S_UNKNOWN, S_warning}

\* a key that the mapping does not hold
Absent ==
    [absent |-> TRUE]

\* the mapping that holds the keys of c that are not absent
Prune(c) ==
    Map([k \in {j \in DOMAIN c : c[j] # Absent} |-> c[k]])

\* advisory, package and cvss records with any of their fields missing
AdvisoryRecords ==
    {Prune(c) : c \in [id : {Absent, Str(S_RUSTSEC_1)},
                       title : {Absent, Str(S_Bad_crate)},
                       description : {Absent, Str(S_desc)},
                       url : {Absent, Str(S_url)}]}

PackageRecords ==
    {Prune(c) : c \in [name : {Absent, Str(S_foo)},
                       version : {Absent, Str(S_1_2_3)}]}

CvssRecords ==
    {EmptyMap, Map([score |-> Num(81)])}

\* values of the wrong type under a key: null, a number, a list, a string
WrongType ==
    {Null, Num(7), EmptyList, Str(S_desc)}

\* vulnerability entries whose present keys hold what the data model of the
\* specification describes
WellFormedEntries ==
    {Prune(c) : c \in [advisory : AdvisoryRecords \cup {Absent},
                       package : PackageRecords \cup {Absent},
                       severity : {Absent, Str(S_high), Str(S_low), Str(S_moderate)},
                       cvss : CvssRecords \cup {Absent}]}

\* vulnerability entries some of whose keys hold a value of the wrong type, or
\* whose advisory holds null fields
IllFormedEntries ==
    {Prune(c) : c \in [advisory : {Absent, VulnFull.map.advisory,
                                   Map([title |-> Null, description |-> Null])}
                                  \cup WrongType,
                       package : {Absent, Null, EmptyList},
                       severity : {Absent, Str(S_high), Null, Num(7)},
                       cvss : {Absent, Map([score |-> Num(81)]), Null, Num(81)}]}

\* the arguments of the model; create_sarif_result and create_sarif_rule are
\* also called on values that are not mappings
Calls ==
    {[fn |-> "convert_severity", arg |-> Str(s), ret |-> NoValue] :
        s \in SeverityStrings}
    \cup {[fn |-> f, arg |-> v, ret |-> NoValue] :
            f \in {"create_sarif_result", "create_sarif_rule"},
            v \in WellFormedEntries \cup IllFormedEntries \cup {Null, EmptyList}}

CallConvertSeverity ==
    /\ pc = "call"
    /\ call.fn = "convert_severity"
    /\ call' = [call EXCEPT !.ret = convert_severity(call.arg)]
    /\ pc' = "called"
    /\ UNCHANGED <<argv, fs, audit_data, vulnerabilities, sarif, idx, sarif_data,
                   raised, out_pos, stdout, exit_code, log, fs0, given, outcomes>>

CallCreateSarifResult ==
    /\ pc = "call"
    /\ call.fn = "create_sarif_result"
    /\ call' = [call EXCEPT !.ret = create_sarif_result(call.arg)]
    /\ pc' = "called"
    /\ UNCHANGED <<argv, fs, audit_data, vulnerabilities, sarif, idx, sarif_data,
                   raised, out_pos, stdout, exit_code, log, fs0, given, outcomes>>

CallCreateSarifRule ==
    /\ pc = "call"
    /\ call.fn = "create_sarif_rule"
    /\ call' = [call EXCEPT !.ret = create_sarif_rule(call.arg)]
    /\ pc' = "called"
    /\ UNCHANGED <<argv, fs, audit_data, vulnerabilities, sarif, idx, sarif_data,
                   raised, out_pos, stdout, exit_code, log, fs0, given, outcomes>>

InitCalls ==
    /\ call \in Calls
    /\ pc = "call"
    /\ argv = <<ProgramName>>
    /\ fs = [p \in Paths |-> NoFile]
    /\ fs0 = fs
    /\ audit_data = NoValue
    /\ given = NoValue
    /\ vulnerabilities = NoValue
    /\ sarif = NoValue
    /\ idx = 0
    /\ sarif_data = NoValue
    /\ raised = NoValue
    /\ out_pos = 0
    /\ stdout = <<>>
    /\ exit_code = NotExited
    /\ log = <<>>
    /\ outcomes = <<>>

NextCalls ==
    \/ CallConvertSeverity
    \/ CallCreateSarifResult
    \/ CallCreateSarifRule

SpecCalls ==
    InitCalls /\ [][NextCalls]_vars

-----------------------------------------------------------------------------
(* Properties *)

\* the log holds an event of kind e
Logged(e) ==
    \E k \in DOMAIN log : log[k].ev = e

\* convert_audit_to_sarif has returned its document
Converted ==
    Logged("converted")

\* a file was opened, or its opening attempted, at path p in mode m
OpenAttempted(p, m) ==
    \E k \in DOMAIN log : log[k].ev = "open" /\ log[k].path = p /\ log[k].mode = m

\* convert_audit_to_sarif raised: an exception is in flight, or was handled,
\* and the function never returned
ConversionRaised ==
    /\ Logged("parsed")
    /\ ~Converted
    /\ pc \in {"raised", "exit"}

\* the report holds, at vulnerabilities.list, a list of mappings
ListOfMappings(report) ==
    /\ IsMap(report)
    /\ "vulnerabilities" \in DOMAIN report.map
    /\ IsMap(report.map.vulnerabilities)
    /\ "list" \in DOMAIN report.map.vulnerabilities.map
    /\ IsList(report.map.vulnerabilities.map.list)
    /\ \A k \in DOMAIN report.map.vulnerabilities.map.list.list :
          IsMap(report.map.vulnerabilities.map.list.list[k])

InputList(report) ==
    report.map.vulnerabilities.map.list.list

\* C1: for a report whose vulnerabilities.list is a list of n mappings,
\* convert_audit_to_sarif returns a document with n rules and n results, the
\* i-th rule create_sarif_rule(input[i]) and the i-th result
\* create_sarif_result(input[i]), in input order and without deduplication;
\* at every loop boundary both lists hold as many entries as were processed.
C1_ParallelArrays ==
    (audit_data # NoValue /\ ListOfMappings(audit_data)) =>
        /\ ~ConversionRaised
        /\ pc = "loop" =>
              Len(Rules(sarif)) = idx /\ Len(Results(sarif)) = idx
        /\ Converted =>
              /\ Len(Rules(sarif_data)) = Len(InputList(audit_data))
              /\ Len(Results(sarif_data)) = Len(InputList(audit_data))
              /\ \A k \in DOMAIN InputList(audit_data) :
                    /\ Rules(sarif_data)[k] = create_sarif_rule(InputList(audit_data)[k])
                    /\ Results(sarif_data)[k] =
                          create_sarif_result(InputList(audit_data)[k])

\* the path vulnerabilities.list of a report that is a mapping is absent or
\* malformed (no vulnerabilities key, no list key, vulnerabilities not a
\* mapping), or the list is empty
PathAbsentOrEmpty(report) ==
    /\ IsMap(report)
    /\ \/ "vulnerabilities" \notin DOMAIN report.map
       \/ ~IsMap(report.map.vulnerabilities)
       \/ "list" \notin DOMAIN report.map.vulnerabilities.map
       \/ report.map.vulnerabilities.map.list = EmptyList

\* C6: for a report in which the path vulnerabilities.list is absent or
\* malformed, or the list is empty, convert_audit_to_sarif raises no error and
\* returns a document with empty rules and results and the fixed metadata.
C6_AbsentPathYieldsEmpty ==
    (audit_data # NoValue /\ PathAbsentOrEmpty(audit_data)) =>
        /\ ~ConversionRaised
        /\ Converted =>
              /\ Rules(sarif_data) = <<>>
              /\ Results(sarif_data) = <<>>
              /\ sarif_data["$schema"] = Str(S_schema_uri)
              /\ sarif_data.version = Str(S_sarif_version)
              /\ sarif_data.runs[1].tool.driver.name = Str(S_cargo_audit)
              /\ sarif_data.runs[1].columnKind = Str(S_utf16CodeUnits)

\* C5: after any run of main, whatever step fails, the output file holds the
\* complete serialized document or no document at all: it is as it was before
\* the run, or empty, or holds every piece of the text of the document.
C5_OutputAllOrNothing ==
    pc = "exit" =>
        \/ fs[OutputPath] = fs0[OutputPath]
        \/ fs[OutputPath].data = [chunks |-> <<>>]
        \/ fs[OutputPath].data = [chunks |-> Chunks(sarif_data)]

\* C7: on a vulnerability entry that is a mapping, create_sarif_rule and
\* create_sarif_result return a record and never raise, whatever the entry
\* holds under advisory, package, severity and cvss.
C7_BuildersNeverRaise ==
    (/\ pc = "called"
     /\ call.fn \in {"create_sarif_result", "create_sarif_rule"}
     /\ IsMap(call.arg)) => ~Raised(call.ret)

\* s is the word w in some letter case
IsCaseVariant(s, w) ==
    /\ Len(s) = Len(w)
    /\ \A k \in 1..Len(w) : s[k] = w[k] \/ s[k] = UpperChar(w[k])

\* C2: convert_severity is total over strings: critical and high, in any letter
\* case, give "error", medium gives "warning", low and informational give
\* "note", every other string gives "warning".
C2_SeverityMapping ==
    (pc = "called" /\ call.fn = "convert_severity") =>
        LET s == call.arg.str
        IN  /\ IsStr(call.ret)
            /\ call.ret.str \in {S_error, S_warning, S_note}
            /\ (IsCaseVariant(s, S_critical) \/ IsCaseVariant(s, S_high))
                  => call.ret = Str(S_error)
            /\ IsCaseVariant(s, S_medium) => call.ret = Str(S_warning)
            /\ (IsCaseVariant(s, S_low) \/ IsCaseVariant(s, S_informational))
                  => call.ret = Str(S_note)
            /\ (\A w \in SeverityLabels : ~IsCaseVariant(s, w))
                  => call.ret = Str(S_warning)

\* a label in mixed case was mapped
C2_Witness ==
    /\ pc = "called"
    /\ call.fn = "convert_severity"
    /\ call.arg = Str(<<"H","i","G","h">>)
    /\ call.ret = Str(S_error)

\* the value at v[k1][k2] of a vulnerability, or the default when either key
\* is missing
FieldOr(v, k1, k2, default) ==
    IF k1 \in DOMAIN v.map /\ k2 \in DOMAIN v.map[k1].map
    THEN v.map[k1].map[k2]
    ELSE default

\* the level the five labels map to, "warning" for any other string
LevelOf(s) ==
    CASE IsCaseVariant(s, S_critical) \/ IsCaseVariant(s, S_high) -> S_error
      [] IsCaseVariant(s, S_low) \/ IsCaseVariant(s, S_informational) -> S_note
      [] OTHER -> S_warning

\* C8: a vulnerability from which advisory, package, severity and cvss are all
\* missing gives the documented defaults in the result and in the rule; when
\* only some keys are missing each missing field takes its default and each
\* present field is taken from the input.
C8_Defaults ==
    (/\ pc = "called"
     /\ call.fn \in {"create_sarif_result", "create_sarif_rule"}
     /\ call.arg \in WellFormedEntries) =>
        LET v == call.arg
            r == call.ret
        IN  /\ ~Raised(r)
            /\ r.properties["security-severity"] =
                  FieldOr(v, "cvss", "score", Num(DefaultScore))
            /\ call.fn = "create_sarif_result" =>
                  /\ r.ruleId = FieldOr(v, "advisory", "id", Str(S_UNKNOWN))
                  /\ r.level = Str(LevelOf(
                        IF "severity" \in DOMAIN v.map THEN v.map.severity.str
                        ELSE S_medium))
                  /\ r.message.text = FieldOr(v, "advisory", "description",
                                              Str(S_Unknown_vulnerability))
                  /\ r.partialFingerprints.packageName =
                        FieldOr(v, "package", "name", Str(<<>>))
                  /\ r.partialFingerprints.packageVersion =
                        FieldOr(v, "package", "version", Str(<<>>))
                  /\ v = EmptyMap =>
                        /\ r.ruleId = Str(S_UNKNOWN)
                        /\ r.level = Str(S_warning)
                        /\ r.message.text = Str(S_Unknown_vulnerability)
                        /\ r.partialFingerprints =
                              [packageName |-> Str(<<>>), packageVersion |-> Str(<<>>)]
                        /\ r.properties["security-severity"] = Num(DefaultScore)
            /\ call.fn = "create_sarif_rule" =>
                  /\ r.id = FieldOr(v, "advisory", "id", Str(S_UNKNOWN))
                  /\ r.name = FieldOr(v, "advisory", "title",
                                      Str(S_Unknown_vulnerability))
                  /\ r.shortDescription.text = r.name
                  /\ r.fullDescription.text =
                        FieldOr(v, "advisory", "description", Str(<<>>))
                  /\ r.help.text =
                        Str(S_Update \o FieldOr(v, "package", "name", Str(S_package)).str
                            \o S_to_a_patched_version)
                  /\ r.help.markdown =
                        Str(S_md_heading
                            \o FieldOr(v, "advisory", "title", Str(S_Vulnerability)).str
                            \o S_md_break
                            \o FieldOr(v, "advisory", "description", Str(<<>>)).str
                            \o S_md_references
                            \o FieldOr(v, "advisory", "url", Str(<<>>)).str)
                  /\ v = EmptyMap =>
                        /\ r.id = Str(S_UNKNOWN)
                        /\ r.name = Str(S_Unknown_vulnerability)
                        /\ r.shortDescription.text = Str(S_Unknown_vulnerability)
                        /\ r.fullDescription.text = Str(<<>>)
                        /\ r.help.text = Str(S_Update \o S_package
                                             \o S_to_a_patched_version)
                        /\ r.help.markdown = Str(S_md_heading \o S_Vulnerability
                                                 \o S_md_break \o S_md_references)
                        /\ r.properties["security-severity"] = Num(DefaultScore)

\* the rule of an entry with none of the four keys was built
C8_Witness ==
    /\ pc = "called"
    /\ call.fn = "create_sarif_rule"
    /\ call.arg = EmptyMap
    /\ ~Raised(call.ret)
    /\ call.ret.id = Str(S_UNKNOWN)

\* reading, parsing, converting and writing all succeeded
AllSucceeded ==
    /\ \E k \in DOMAIN log :
          log[k] = [ev |-> "open", path |-> argv[2], mode |-> "r", ok |-> TRUE]
    /\ Logged("parsed")
    /\ Converted
    /\ \E k \in DOMAIN log :
          log[k] = [ev |-> "open", path |-> argv[3], mode |-> "w", ok |-> TRUE]
    /\ Logged("written")

SuccessPrinted ==
    \E k \in DOMAIN stdout : stdout[k].msg = "success"

\* C3: a run of main with exactly two arguments exits with 0 if and only if
\* reading, parsing, converting and writing all succeeded, and then the
\* confirmation naming both files is printed after the write completed; every
\* other run prints an error message and exits with 1.
C3_ExitCode ==
    Len(argv) = 3 =>
        /\ SuccessPrinted =>
              /\ Logged("written")
              /\ fs[argv[3]].data = [chunks |-> Chunks(sarif_data)]
        /\ pc = "exit" =>
              /\ exit_code \in {0, 1}
              /\ exit_code = 0 <=> AllSucceeded
              /\ exit_code = 0 =>
                    stdout = <<[msg |-> "success", input |-> argv[2],
                                output |-> argv[3]]>>
              /\ exit_code = 1 =>
                    /\ Len(stdout) = 1
                    /\ stdout[1].msg = "error"

\* a run that converted two vulnerabilities and exited with 0
C3_Witness ==
    /\ pc = "exit"
    /\ Len(argv) = 3
    /\ exit_code = 0
    /\ Len(Rules(sarif_data)) = 2
    /\ AllSucceeded

\* C4: while reading, parsing or converting has not succeeded, and after a
\* run in which one of them failed, the output path was never opened for
\* writing, created or modified: it is opened only after
\* convert_audit_to_sarif returned the document.
C4_NoOutputBeforeConversion ==
    (Len(argv) = 3 /\ ~Converted) =>
        /\ ~OpenAttempted(argv[3], "w")
        /\ fs[argv[3]] = fs0[argv[3]]

\* a run that failed in the conversion, on its second vulnerability entry, and
\* exited
C4_Witness ==
    /\ pc = "exit"
    /\ Len(argv) = 3
    /\ Logged("parsed")
    /\ ~Converted
    /\ idx = 1
    /\ raised = Exc("AttributeError")
    /\ fs0[argv[3]].exists

\* C9: a run whose argument count is not two prints the usage message and
\* exits with 1 without any file access: no path is opened and no file is
\* created or modified.
C9_UsageNoFileAccess ==
    Len(argv) # 3 =>
        /\ pc \in {"main", "exit"}
        /\ log = <<>>
        /\ fs = fs0
        /\ pc = "exit" =>
              /\ exit_code = 1
              /\ stdout = <<[msg |-> "usage"]>>

\* a run with three arguments has exited
C9_Witness ==
    /\ pc = "exit"
    /\ Len(argv) = 4
    /\ exit_code = 1

\* C10: conversions of the same report in one process produce identical
\* outcomes, whatever was converted before, and leave the report as given.
C10_Deterministic ==
    /\ audit_data = given
    /\ \A j, k \in DOMAIN outcomes : outcomes[j] = outcomes[k]

\* the second conversion of a report with two vulnerabilities returned
C10_Witness ==
    /\ Len(outcomes) >= 2
    /\ ~Raised(outcomes[2])
    /\ Len(Rules(outcomes[2])) = 2
    /\ Len(Results(outcomes[2])) = 2

====
